---- MODULE Spec2Model ----
(***************************************************************************)
(* A model of src/event_stream_generator.py: the synthetic event stream    *)
(* generator.  generate_chunk (with draw_session_lengths, draw_zipf_id and *)
(* rand_ts_last_two_years) is modelled statement by statement; main, the   *)
(* size-bounded writer, is modelled over the serialized byte counts.       *)
(*                                                                         *)
(* A datetime is a record [s |-> whole seconds since the epoch,            *)
(* us |-> sub-second part].  The seeded numpy source is a nondeterministic *)
(* choice at every draw; uuid.uuid4() reads the operating system's         *)
(* entropy, which no seed fixes, and is the pair <<entropy, call number>>. *)
(***************************************************************************)
EXTENDS Integers, Sequences, FiniteSets, TLC

----------------------------------------------------------------------------
(* Configuration.  The source's module-level tunables are set to small    *)
(* values: USER_POOL_SIZE = 10_000, BOOK_POOL_SIZE = 5_000 and             *)
(* MAX_SESSION_LEN = 20 as shipped.                                        *)

USER_POOL_SIZE == 2
BOOK_POOL_SIZE == 2
MAX_SESSION_LEN == 2
\* The largest n_events a call of generate_chunk is given.
MaxEvents == 3
\* The sub-second part of the wall clock ranges over 0..MaxMicro
\* (0..999999 in the source's datetime); its two ends are followed.
MaxMicro == 1
\* uuid4 reads one of the entropy states 0..MaxEntropy; a second run starts
\* up to MaxRunDelay seconds after the first.
MaxEntropy == 1
MaxRunDelay == 1
\* A cap on the re-draws of one draw_zipf_id call; the model counts the
\* ranks a call draws up to RejectionCap + 2.
RejectionCap == 1

\* DEFAULT_CHUNK_ROWS = 200_000 and n_sample = 2000 as shipped.
DEFAULT_CHUNK_ROWS == 2
N_SAMPLE == 2
\* TARGET_BYTES (TARGET_SIZE_MB * 1024 * 1024) ranges over 1..MaxTargetBytes,
\* in units in which a serialized row takes 1..MaxRowBytes and the header
\* line HeaderBytes.
MaxTargetBytes == 8
MaxRowBytes == 2
HeaderBytes == 1

\* The window timedelta(days=730), the gap randint(15, 1801).
WindowDays == 730
SecondsPerDay == 86400
GapMin == 15
GapMax == 1800
\* A reading of the wall clock, in whole seconds.
NowSec == 1793653815

VARIABLES
    NOW,            \* the instant fixed at import
    USER_ID_MAP,    \* permutation of 1..USER_POOL_SIZE, as a sequence
    BOOK_ID_MAP,    \* permutation of 1..BOOK_POOL_SIZE, as a sequence
    entropy,        \* the operating system's entropy uuid4 reads
    uuid_calls,     \* number of uuid4() calls so far
    cpc,            \* position inside generate_chunk
    n_events,       \* generate_chunk's argument
    sess_lengths,   \* draw_session_lengths: lengths
    total,          \* draw_session_lengths: total
    sidx,           \* index of the session being materialized
    session_uuid,
    user_id,
    current_ts,
    todo,           \* events of the current session still to emit
    event_id,
    event_ts,       \* the formatted timestamp of the event being emitted
    zctx,           \* who called draw_zipf_id: "user" or "book"
    r,              \* draw_zipf_id: the rank drawn last
    draws,          \* draw_zipf_id: ranks drawn by the current call
    cols,           \* the rows materialized so far
    df,             \* the batch generate_chunk returns
    \* main, the size-bounded writer
    TARGET_BYTES,   \* the configured byte budget
    wpc,            \* position inside main
    file,           \* the file at out_path: [exists, lines, bytes]
    sample_bytes,   \* estimate_avg_row_bytes: len(data)
    sample_len,     \* estimate_avg_row_bytes: len(df)
    target_rows,
    rows_written,
    first_write,
    n_chunk,
    final_size,
    extra_rows,
    corrections,    \* corrective chunks appended
    corr_bytes,     \* bytes the corrective chunk added
    \* a second run of the program, same SEED and configuration
    NOW2,
    entropy2,
    session_uuid2,
    current_ts2,
    cols2,
    df2

chunkVars == <<NOW, USER_ID_MAP, BOOK_ID_MAP, entropy, uuid_calls, cpc,
               n_events, sess_lengths, total, sidx, session_uuid, user_id,
               current_ts, todo, event_id, event_ts, zctx, r, draws,
               cols, df>>

writerVars == <<TARGET_BYTES, wpc, file, sample_bytes, sample_len,
                target_rows, rows_written, first_write, n_chunk, final_size,
                extra_rows, corrections, corr_bytes>>

pairVars == <<NOW2, entropy2, session_uuid2, current_ts2, cols2, df2>>

vars == <<chunkVars, writerVars, pairVars>>

----------------------------------------------------------------------------
(* Pure helpers.                                                           *)

Min(a, b) == IF a < b THEN a ELSE b

RECURSIVE SumSeq(_)
SumSeq(s) == IF s = <<>> THEN 0 ELSE Head(s) + SumSeq(Tail(s))

\* A permutation of arange(0, n) instead of arange(1, n + 1).
PermutationsFrom0(n) ==
    {p \in [1..n -> 0..(n - 1)] : \A i, j \in 1..n : p[i] = p[j] => i = j}

\* np.random.permutation(np.arange(1, n + 1)): every ordering of 1..n.
Permutations1(n) ==
    {p \in [1..n -> 1..n] : \A i, j \in 1..n : p[i] = p[j] => i = j}

\* datetime comparison.
DtLe(a, b) == a.s < b.s \/ (a.s = b.s /\ a.us <= b.us)
DtGt(a, b) == ~DtLe(a, b)

\* datetime - timedelta(days=d), datetime + timedelta(seconds=g).
MinusDays(dt, d) == [s |-> dt.s - d * SecondsPerDay, us |-> dt.us]
PlusSeconds(dt, g) == [s |-> dt.s + g, us |-> dt.us]

\* int(dt.timestamp()): the sub-second part is dropped.
IntTimestamp(dt) == dt.s
\* datetime.fromtimestamp(ts, tz=utc) of a whole number of seconds.
FromTimestamp(ts) == [s |-> ts, us |-> 0]
\* strftime("%Y-%m-%dT%H:%M:%SZ"): second precision; the text is read back
\* as the whole second it names.
Strftime(dt) == dt.s

StartOf(now) == MinusDays(now, WindowDays)
START == StartOf(NOW)
START_TS == IntTimestamp(START)
END_TS == IntTimestamp(NOW)

\* np.random.randint(START_TS, END_TS + 1) is START_TS plus what the seeded
\* source yields in 0..END_TS - START_TS; the two ends are followed.
TsOffsets == {0, WindowDays * SecondsPerDay}
RandTs(now, offset) == IntTimestamp(StartOf(now)) + offset
TsDraws == {RandTs(NOW, o) : o \in TsOffsets}
\* np.random.randint(15, 1801) draws from 15..1800; the ends are followed.
GapDraws == {GapMin, GapMax}
\* np.random.zipf(a) draws a rank >= 1; max_id + 1 stands for the ranks
\* beyond the pool.
ZipfDraws(max_id) == 1..(max_id + 1)
\* np.random.geometric(p) draws a length >= 1; max_len + 1 stands for the
\* lengths beyond the cap.
GeomDraws(max_len) == 1..(max_len + 1)
\* The values n_events takes.
EventCounts == (-1)..MaxEvents

\* uuid.uuid4(): a token of the OS entropy, fresh at every call.
Uuid4(e, k) == <<e, k>>

\* The draw is kept as it is, the cap forgotten.
NoClampLength(g, max_len) == g

\* lenght = min(geometric draw, max_len)  (lines 136-138)
ClampLength(g, max_len) == IF g > max_len THEN max_len ELSE g

\* while r > max_id  (line 121)
ZipfRejects(rank, max_id) == rank > max_id

\* mapping[r - 1] on a 0-based array; the model's sequences are 1-based.
MapRank(mapping, rank) == mapping[rank]

\* The gap is subtracted instead of added.
AdvanceTsBackwards(ts, gap, now) ==
    LET next == PlusSeconds(ts, 0 - gap)
    IN  IF DtGt(next, now) THEN now ELSE next

\* if current_ts > NOW: current_ts = NOW  (lines 206-210)
AdvanceTs(ts, gap, now) ==
    LET next == PlusSeconds(ts, gap)
    IN  IF DtGt(next, now) THEN now ELSE next

\* df.iloc[:n] (a Python slice: a negative n counts from the end).
ILocTo(rows, n) ==
    IF n >= 0 THEN SubSeq(rows, 1, Min(n, Len(rows)))
    ELSE SubSeq(rows, 1, IF Len(rows) + n > 0 THEN Len(rows) + n ELSE 0)

\* The batch is returned as materialized.
NoTruncate(rows, n) == rows

\* if len(df) > n_events: df = df.iloc[:n_events]  (lines 214-215)
Truncate(rows, n) == IF Len(rows) > n THEN ILocTo(rows, n) ELSE rows

PoolSize(ctx) == IF ctx = "user" THEN USER_POOL_SIZE ELSE BOOK_POOL_SIZE

NoDt == [s |-> 0, us |-> 0]
NoUuid == <<0, 0>>

----------------------------------------------------------------------------
(* generate_chunk.                                                         *)

NowChoices == {[s |-> NowSec, us |-> u] : u \in {0, MaxMicro}}

\* No second run.
PairIdle ==
    /\ NOW2 = NoDt
    /\ entropy2 = 0
    /\ session_uuid2 = NoUuid
    /\ current_ts2 = NoDt
    /\ cols2 = <<>>
    /\ df2 = <<>>

\* main has not been entered.
WriterIdle ==
    /\ TARGET_BYTES = 0
    /\ wpc = "idle"
    /\ file = [exists |-> FALSE, lines |-> <<>>, bytes |-> 0]
    /\ sample_bytes = 0
    /\ sample_len = 0
    /\ target_rows = 0
    /\ rows_written = 0
    /\ first_write = TRUE
    /\ n_chunk = 0
    /\ final_size = 0
    /\ extra_rows = 0
    /\ corrections = 0
    /\ corr_bytes = 0

InitChunk ==
    /\ WriterIdle
    /\ PairIdle
    /\ NOW \in NowChoices
    /\ USER_ID_MAP \in Permutations1(USER_POOL_SIZE)
    /\ BOOK_ID_MAP \in Permutations1(BOOK_POOL_SIZE)
    /\ entropy = 0    \* one run: the tokens are fresh whatever the entropy
    /\ uuid_calls = 0
    /\ cpc = "idle"
    /\ n_events = 0
    /\ sess_lengths = <<>>
    /\ total = 0
    /\ sidx = 0
    /\ session_uuid = NoUuid
    /\ user_id = 0
    /\ current_ts = NoDt
    /\ todo = 0
    /\ event_id = NoUuid
    /\ event_ts = 0
    /\ zctx = "user"
    /\ r = 0
    /\ draws = 0
    /\ cols = <<>>
    /\ df = <<>>

\* generate_chunk(n) is entered: cols is empty, the planning loop starts.
ChunkEnter(n) ==
    /\ UNCHANGED <<writerVars, pairVars>>
    /\ cpc' = "plan"
    /\ n_events' = n
    /\ sess_lengths' = <<>>
    /\ total' = 0
    /\ sidx' = 0
    /\ cols' = <<>>
    /\ df' = <<>>
    /\ UNCHANGED <<NOW, USER_ID_MAP, BOOK_ID_MAP, entropy, uuid_calls,
                   session_uuid, user_id, current_ts, todo, event_id,
                   event_ts, zctx, r, draws>>

CallGenerateChunk ==
    /\ cpc = "idle"
    /\ \E n \in EventCounts : ChunkEnter(n)

\* draw_session_lengths: one iteration of while total < n_target.
DrawLength ==
    /\ UNCHANGED <<writerVars, pairVars>>
    /\ cpc = "plan"
    /\ total < n_events
    /\ \E g \in GeomDraws(MAX_SESSION_LEN) :
         LET lenght == ClampLength(g, MAX_SESSION_LEN)
         IN  /\ sess_lengths' = Append(sess_lengths, lenght)
             /\ total' = total + lenght
    /\ UNCHANGED <<NOW, USER_ID_MAP, BOOK_ID_MAP, entropy, uuid_calls, cpc,
                   n_events, sidx, session_uuid, user_id, current_ts, todo,
                   event_id, event_ts, zctx, r, draws, cols, df>>

\* draw_session_lengths returns; the loop over sess_lengths starts.
PlanReturn ==
    /\ UNCHANGED <<writerVars, pairVars>>
    /\ cpc = "plan"
    /\ ~(total < n_events)
    /\ cpc' = "session"
    /\ sidx' = 1
    /\ UNCHANGED <<NOW, USER_ID_MAP, BOOK_ID_MAP, entropy, uuid_calls,
                   n_events, sess_lengths, total, session_uuid, user_id,
                   current_ts, todo, event_id, event_ts, zctx, r, draws,
                   cols, df>>

\* for slen in sess_lengths: session_uuid = uuid4(); draw_zipf_id is called
\* for the user and draws its first rank.
StartSession ==
    /\ UNCHANGED <<writerVars, pairVars>>
    /\ cpc = "session"
    /\ sidx <= Len(sess_lengths)
    /\ session_uuid' = Uuid4(entropy, uuid_calls)
    /\ uuid_calls' = uuid_calls + 1
    /\ zctx' = "user"
    /\ draws' = 0
    /\ cpc' = "zipf"
    /\ UNCHANGED <<NOW, USER_ID_MAP, BOOK_ID_MAP, entropy, n_events,
                   sess_lengths, total, sidx, user_id, current_ts, todo,
                   event_id, event_ts, r, cols, df>>

\* The number of ranks drawn, counted up to RejectionCap + 2.
CountDraw(k) == Min(k + 1, RejectionCap + 2)

\* draw_zipf_id: r = np.random.zipf(a) draws a rank beyond the pool, and
\* the loop while r > max_id goes round (again).
ZipfReject ==
    /\ UNCHANGED <<writerVars, pairVars>>
    /\ cpc = "zipf"
    /\ \E z \in ZipfDraws(PoolSize(zctx)) :
         /\ ZipfRejects(z, PoolSize(zctx))
         /\ r' = z
    /\ draws' = CountDraw(draws)
    /\ UNCHANGED <<NOW, USER_ID_MAP, BOOK_ID_MAP, entropy, uuid_calls, cpc,
                   n_events, sess_lengths, total, sidx, session_uuid,
                   user_id, current_ts, todo, event_id, event_ts, zctx,
                   cols, df>>

\* draw_zipf_id draws a rank inside the pool and returns to the session:
\* user_id is set, the first timestamp is drawn, etypes (slen of them) are
\* drawn.
UserReturn ==
    /\ UNCHANGED <<writerVars, pairVars>>
    /\ cpc = "zipf"
    /\ zctx = "user"
    /\ \E z \in ZipfDraws(USER_POOL_SIZE) :
         /\ ~ZipfRejects(z, USER_POOL_SIZE)
         /\ r' = z
         /\ user_id' = MapRank(USER_ID_MAP, z)
    /\ draws' = CountDraw(draws)
    /\ \E ts \in TsDraws : current_ts' = FromTimestamp(ts)
    /\ todo' = sess_lengths[sidx]
    /\ cpc' = "event"
    /\ UNCHANGED <<NOW, USER_ID_MAP, BOOK_ID_MAP, entropy, uuid_calls,
                   n_events, sess_lengths, total, sidx, session_uuid,
                   event_id, event_ts, zctx, cols, df>>

\* for et in etypes: the event's id and formatted timestamp; draw_zipf_id is
\* called for the book and draws its first rank.
StartEvent ==
    /\ UNCHANGED <<writerVars, pairVars>>
    /\ cpc = "event"
    /\ todo > 0
    /\ event_id' = Uuid4(entropy, uuid_calls)
    /\ uuid_calls' = uuid_calls + 1
    /\ event_ts' = Strftime(current_ts)
    /\ zctx' = "book"
    /\ draws' = 0
    /\ cpc' = "zipf"
    /\ UNCHANGED <<NOW, USER_ID_MAP, BOOK_ID_MAP, entropy, n_events,
                   sess_lengths, total, sidx, session_uuid, user_id,
                   current_ts, todo, r, cols, df>>

Row(eid, ts, uid, bid, sid) ==
    [event_id |-> eid, event_timestamp |-> ts, user_id |-> uid,
     book_id |-> bid, session_id |-> sid]

\* draw_zipf_id draws a rank inside the pool and returns to the event: the
\* row is complete, the cursor advances by the gap and is clamped to NOW.
BookReturn ==
    /\ UNCHANGED <<writerVars, pairVars>>
    /\ cpc = "zipf"
    /\ zctx = "book"
    /\ \E z \in ZipfDraws(BOOK_POOL_SIZE) :
         /\ ~ZipfRejects(z, BOOK_POOL_SIZE)
         /\ r' = z
         /\ cols' = Append(cols, Row(event_id, event_ts, user_id,
                                     MapRank(BOOK_ID_MAP, z), session_uuid))
    /\ draws' = CountDraw(draws)
    /\ \E gap \in GapDraws : current_ts' = AdvanceTs(current_ts, gap, NOW)
    /\ todo' = todo - 1
    /\ cpc' = "event"
    /\ UNCHANGED <<NOW, USER_ID_MAP, BOOK_ID_MAP, entropy, uuid_calls,
                   n_events, sess_lengths, total, sidx, session_uuid,
                   user_id, event_id, event_ts, zctx, df>>

\* The inner loop is exhausted: the next session.
EndSession ==
    /\ UNCHANGED <<writerVars, pairVars>>
    /\ cpc = "event"
    /\ todo = 0
    /\ sidx' = sidx + 1
    /\ cpc' = "session"
    /\ UNCHANGED <<NOW, USER_ID_MAP, BOOK_ID_MAP, entropy, uuid_calls,
                   n_events, sess_lengths, total, session_uuid, user_id,
                   current_ts, todo, event_id, event_ts, zctx, r, draws,
                   cols, df>>

\* df = pd.DataFrame(cols), truncated to n_events rows; return df.
ChunkReturn ==
    /\ UNCHANGED <<writerVars, pairVars>>
    /\ cpc = "session"
    /\ sidx > Len(sess_lengths)
    /\ df' = Truncate(cols, n_events)
    /\ cpc' = "done"
    /\ UNCHANGED <<NOW, USER_ID_MAP, BOOK_ID_MAP, entropy, uuid_calls,
                   n_events, sess_lengths, total, sidx, session_uuid,
                   user_id, current_ts, todo, event_id, event_ts, zctx, r,
                   draws, cols>>

NextChunk ==
    \/ CallGenerateChunk
    \/ DrawLength
    \/ PlanReturn
    \/ StartSession
    \/ ZipfReject
    \/ UserReturn
    \/ StartEvent
    \/ BookReturn
    \/ EndSession
    \/ ChunkReturn

SpecChunk == InitChunk /\ [][NextChunk]_vars

----------------------------------------------------------------------------
(* Properties of generate_chunk.                                           *)

Returned == cpc = "done"
Planned == cpc \in {"session", "zipf", "event", "done"}
Last(s) == s[Len(s)]

C2_TimestampInWindow ==
    \A i \in 1..Len(cols) :
        /\ DtLe(START, FromTimestamp(cols[i].event_timestamp))
        /\ DtLe(FromTimestamp(cols[i].event_timestamp), NOW)

\* What the code keeps instead: the window taken in whole seconds, from
\* START_TS = int(START.timestamp()) to NOW.
TimestampInWholeSecondWindow ==
    \A i \in 1..Len(cols) :
        /\ START_TS <= cols[i].event_timestamp
        /\ DtLe(FromTimestamp(cols[i].event_timestamp), NOW)

\* C3: for n_events >= 1 the returned batch has exactly n_events rows, the
\* first n_events of the rows materialized, and the rows cut off are a
\* proper part of the last planned session.
C3_ExactlyNRows ==
    (Returned /\ n_events >= 1) =>
        /\ Len(df) = n_events
        /\ Len(cols) >= n_events
        /\ df = SubSeq(cols, 1, n_events)
        /\ Len(cols) - n_events < Last(sess_lengths)
        /\ \A i \in (n_events + 1)..Len(cols) :
               cols[i].session_id = Last(cols).session_id

\* A batch of two rows or more whose last session lost a row.
C3_Witness ==
    /\ Returned
    /\ n_events >= 2
    /\ Len(cols) > n_events
    /\ Len(df) = n_events

\* C8: one call of draw_zipf_id re-draws at most RejectionCap times (the
\* first draw is no re-draw), whatever ranks the source yields.
C8_RedrawsCapped == draws <= RejectionCap + 1

\* C9: every row's user_id is in 1..USER_POOL_SIZE and its book_id in
\* 1..BOOK_POOL_SIZE, both taken from the permutations.
C9_IdsInPool ==
    \A i \in 1..Len(cols) :
        /\ cols[i].user_id \in 1..USER_POOL_SIZE
        /\ cols[i].book_id \in 1..BOOK_POOL_SIZE
        /\ \E k \in 1..USER_POOL_SIZE : cols[i].user_id = USER_ID_MAP[k]
        /\ \E k \in 1..BOOK_POOL_SIZE : cols[i].book_id = BOOK_ID_MAP[k]

\* A row drawn after a rejected rank, next to a row with other ids.
C9_Witness ==
    /\ cpc = "event"
    /\ draws >= 2
    /\ Len(cols) >= 2
    /\ cols[1].user_id # cols[2].user_id
    /\ cols[1].book_id # cols[2].book_id

\* C10: draw_session_lengths returns lengths in 1..max_len whose sum is the
\* returned total; the total reaches n_target and would not without the
\* last length; for n_target <= 0 the list is empty and the total 0.
C10_SessionPlan ==
    Planned =>
        /\ \A k \in 1..Len(sess_lengths) :
               sess_lengths[k] \in 1..MAX_SESSION_LEN
        /\ total = SumSeq(sess_lengths)
        /\ total >= n_events
        /\ sess_lengths # <<>> => total - Last(sess_lengths) < n_events
        /\ n_events <= 0 => (sess_lengths = <<>> /\ total = 0)

\* A plan of several sessions that overshoots the target with a capped
\* last length.
C10_Witness ==
    /\ Planned
    /\ Len(sess_lengths) >= 2
    /\ total > n_events
    /\ Last(sess_lengths) = MAX_SESSION_LEN

----------------------------------------------------------------------------
(* main: the size-bounded writer.  generate_chunk is taken whole: the      *)
(* session plan, the materialized rows (each by its serialized size) and   *)
(* the truncation.  Sizes are exact; the source computes them in floats.   *)

Max(a, b) == IF a > b THEN a ELSE b

\* The (lengths, total) draw_session_lengths(n) can return.
RECURSIVE Plans(_, _)
Plans(n, max_len) ==
    IF ~(0 < n) THEN {<<>>}
    ELSE UNION {{<<ClampLength(g, max_len)>> \o p :
                    p \in Plans(n - ClampLength(g, max_len), max_len)} :
                g \in GeomDraws(max_len)}

\* The sequences of k elements of S.
SeqsOf(S, k) == [1..k -> S]

\* The batches generate_chunk(n) can return, each row by its size in bytes.
Batches(n) ==
    UNION {{Truncate(rows, n) : rows \in SeqsOf(1..MaxRowBytes, SumSeq(p))} :
           p \in Plans(n, MAX_SESSION_LEN)}

\* df.to_csv(out_path, index=False, mode=mode, header=header)
ToCsv(f, batch, mode, header) ==
    LET head  == IF header THEN <<"header">> ELSE <<>>
        hsize == IF header THEN HeaderBytes ELSE 0
        body  == [i \in 1..Len(batch) |-> "row"]
        old   == IF mode = "w" \/ ~f.exists
                 THEN [lines |-> <<>>, bytes |-> 0]
                 ELSE [lines |-> f.lines, bytes |-> f.bytes]
    IN  [exists |-> TRUE,
         lines  |-> old.lines \o head \o body,
         bytes  |-> old.bytes + hsize + SumSeq(batch)]

\* The loop takes the whole remainder, however large.
NChunkUnbounded(remaining) == remaining

\* n_chunk = min(DEFAULT_CHUNK_ROWS, remaining)  (line 246)
NChunk(remaining) == Min(DEFAULT_CHUNK_ROWS, remaining)

\* target_rows = int(TARGET_BYTES / avg_row_bytes), with
\* avg_row_bytes = len(data) / max(1, len(df))  (lines 229, 239)
TargetRows(budget, bytes, len) == (budget * Max(1, len)) \div bytes

\* The + 1 is forgotten.
ExtraRowsFloor(budget, size, bytes, len) ==
    ((budget - size) * Max(1, len)) \div bytes

\* extra_rows = int((TARGET_BYTES - final_size) / avg_row_bytes) + 1
ExtraRows(budget, size, bytes, len) ==
    ((budget - size) * Max(1, len)) \div bytes + 1

\* A file a previous run left at out_path.
StaleFile == [exists |-> TRUE, lines |-> <<"header", "row">>,
              bytes |-> HeaderBytes + 1]
NoFile == [exists |-> FALSE, lines |-> <<>>, bytes |-> 0]

\* generate_chunk is not running.
ChunkIdle ==
    /\ NOW = NoDt
    /\ USER_ID_MAP = <<>>
    /\ BOOK_ID_MAP = <<>>
    /\ entropy = 0
    /\ uuid_calls = 0
    /\ cpc = "idle"
    /\ n_events = 0
    /\ sess_lengths = <<>>
    /\ total = 0
    /\ sidx = 0
    /\ session_uuid = NoUuid
    /\ user_id = 0
    /\ current_ts = NoDt
    /\ todo = 0
    /\ event_id = NoUuid
    /\ event_ts = 0
    /\ zctx = "user"
    /\ r = 0
    /\ draws = 0
    /\ cols = <<>>
    /\ df = <<>>

InitMain ==
    /\ ChunkIdle
    /\ PairIdle
    /\ TARGET_BYTES \in 1..MaxTargetBytes
    /\ wpc = "start"
    /\ file \in {NoFile, StaleFile}
    /\ sample_bytes = 0
    /\ sample_len = 0
    /\ target_rows = 0
    /\ rows_written = 0
    /\ first_write = TRUE
    /\ n_chunk = 0
    /\ final_size = 0
    /\ extra_rows = 0
    /\ corrections = 0
    /\ corr_bytes = 0

\* if os.path.exists(out_path): os.remove(out_path)
RemoveOld ==
    /\ UNCHANGED <<chunkVars, pairVars>>
    /\ wpc = "start"
    /\ file' = NoFile
    /\ wpc' = "estimate"
    /\ UNCHANGED <<TARGET_BYTES, sample_bytes, sample_len, target_rows,
                   rows_written, first_write, n_chunk, final_size,
                   extra_rows, corrections, corr_bytes>>

\* avg_row_bytes = estimate_avg_row_bytes(2000); target_rows; the counters.
Estimate ==
    /\ UNCHANGED <<chunkVars, pairVars>>
    /\ wpc = "estimate"
    /\ \E batch \in Batches(N_SAMPLE) :
         /\ sample_bytes' = SumSeq(batch)
         /\ sample_len' = Len(batch)
         /\ target_rows' = TargetRows(TARGET_BYTES, SumSeq(batch), Len(batch))
    /\ rows_written' = 0
    /\ first_write' = TRUE
    /\ wpc' = "stream"
    /\ UNCHANGED <<TARGET_BYTES, file, n_chunk, final_size, extra_rows,
                   corrections, corr_bytes>>

\* One iteration of while rows_written < target_rows.
WriteChunk ==
    /\ UNCHANGED <<chunkVars, pairVars>>
    /\ wpc = "stream"
    /\ rows_written < target_rows
    /\ LET n == NChunk(target_rows - rows_written)
       IN  /\ n_chunk' = n
           /\ \E batch \in Batches(n) :
                /\ file' = ToCsv(file, batch,
                                 IF first_write THEN "w" ELSE "a",
                                 first_write)
                /\ rows_written' = rows_written + Len(batch)
    /\ first_write' = FALSE
    /\ UNCHANGED <<TARGET_BYTES, wpc, sample_bytes, sample_len, target_rows,
                   final_size, extra_rows, corrections, corr_bytes>>

\* The loop is left; final_size = os.path.getsize(out_path), which raises
\* FileNotFoundError when nothing was written.
MeasureSize ==
    /\ UNCHANGED <<chunkVars, pairVars>>
    /\ wpc = "stream"
    /\ ~(rows_written < target_rows)
    /\ IF file.exists
       THEN /\ final_size' = file.bytes
            /\ wpc' = IF file.bytes < TARGET_BYTES THEN "correct" ELSE "done"
       ELSE /\ final_size' = final_size
            /\ wpc' = "crashed"
    /\ UNCHANGED <<TARGET_BYTES, file, sample_bytes, sample_len, target_rows,
                   rows_written, first_write, n_chunk, extra_rows,
                   corrections, corr_bytes>>

\* if final_size < TARGET_BYTES: the corrective chunk.
Correct ==
    /\ UNCHANGED <<chunkVars, pairVars>>
    /\ wpc = "correct"
    /\ LET extra == ExtraRows(TARGET_BYTES, final_size, sample_bytes,
                              sample_len)
       IN  /\ extra_rows' = extra
           /\ IF extra > 0
              THEN \E batch \in Batches(extra) :
                     LET f == ToCsv(file, batch, "a", FALSE)
                     IN  /\ file' = f
                         /\ rows_written' = rows_written + Len(batch)
                         /\ final_size' = f.bytes
                         /\ corrections' = corrections + 1
                         /\ corr_bytes' = SumSeq(batch)
              ELSE UNCHANGED <<file, rows_written, final_size, corrections,
                               corr_bytes>>
    /\ wpc' = "done"
    /\ UNCHANGED <<TARGET_BYTES, sample_bytes, sample_len, target_rows,
                   first_write, n_chunk>>

NextMain ==
    \/ RemoveOld
    \/ Estimate
    \/ WriteChunk
    \/ MeasureSize
    \/ Correct

SpecMain == InitMain /\ [][NextMain]_vars

\* The interpreter runs the next statement as long as there is one.
SpecMainFair == SpecMain /\ WF_vars(NextMain)

----------------------------------------------------------------------------
(* Properties of main.                                                     *)

Finished == wpc = "done"
Ended == wpc \in {"done", "crashed"}

\* C4 as claimed: when main finishes, the file is at least TARGET_BYTES
\* long.
C4_FinalSizeReachesBudget == Finished => final_size >= TARGET_BYTES

\* C4 as amended: at most one corrective chunk is appended; without one the
\* file is at least TARGET_BYTES long; with one, the file was short of the
\* budget before it, so the overshoot is less than the chunk's bytes, and
\* the budget is reached whenever the chunk's rows take at least
\* avg_row_bytes each on average.
C4_SingleShotTopUp ==
    Finished =>
        /\ corrections <= 1
        /\ final_size = file.bytes
        /\ corrections = 0 => final_size >= TARGET_BYTES
        /\ corrections = 1 =>
              /\ final_size - corr_bytes < TARGET_BYTES
              /\ extra_rows >= 1
              /\ corr_bytes * Max(1, sample_len) >= extra_rows * sample_bytes
                    => final_size >= TARGET_BYTES

\* A run whose corrective chunk took the file past the budget.
C4_Witness ==
    /\ Finished
    /\ corrections = 1
    /\ final_size > TARGET_BYTES
    /\ rows_written > target_rows

\* C6: when main ends, the file holds exactly one header line and it is the
\* first line, whatever target_rows is.
C6_OneHeaderFirst ==
    Ended =>
        /\ file.exists
        /\ Len(file.lines) >= 1
        /\ file.lines[1] = "header"
        /\ \A i \in 2..Len(file.lines) : file.lines[i] = "row"

\* What the code keeps: the header is first and alone once the stream loop
\* has written a chunk.
HeaderFirstOnceStreamed ==
    (file.exists /\ wpc # "start") =>
        /\ file.lines[1] = "header"
        /\ \A i \in 2..Len(file.lines) : file.lines[i] = "row"

\* C7: every iteration of the stream loop writes n_chunk rows with
\* 1 <= n_chunk <= DEFAULT_CHUNK_ROWS, rows_written never exceeds
\* target_rows in the loop, the loop is left, and it is left with
\* rows_written >= target_rows.
C7_StreamLoopTerminates ==
    /\ [][(wpc = "stream" /\ wpc' = "stream") =>
            /\ n_chunk' >= 1
            /\ n_chunk' <= DEFAULT_CHUNK_ROWS
            /\ rows_written' = rows_written + n_chunk'
            /\ rows_written' <= target_rows]_vars
    /\ [](wpc = "stream" => rows_written <= target_rows)
    /\ [](wpc \in {"correct", "done", "crashed"} =>
            rows_written >= target_rows)
    /\ (wpc = "stream" ~> wpc # "stream")

\* The loop was left after several chunks, the last one smaller than
\* DEFAULT_CHUNK_ROWS.
C7_Witness ==
    /\ wpc = "correct"
    /\ target_rows > DEFAULT_CHUNK_ROWS
    /\ rows_written = target_rows
    /\ n_chunk < DEFAULT_CHUNK_ROWS

----------------------------------------------------------------------------
(* Two runs with the same SEED and configuration, stepped side by side.    *)
(* What the seeded sources yield (np.random: the permutations, the session *)
(* plan, the ranks, the timestamp offset, the gap) is one choice shared by *)
(* both runs; the wall clock and the entropy uuid4 reads are each run's    *)
(* own.  The rejected ranks are seeded and the same in both runs, so a     *)
(* step draws the accepted rank.                                           *)

NowChoices2 ==
    {[s |-> NowSec + d, us |-> u] : d \in 0..MaxRunDelay, u \in {0, MaxMicro}}

InitPair ==
    /\ WriterIdle
    /\ NOW \in NowChoices
    /\ NOW2 \in NowChoices2
    /\ USER_ID_MAP \in Permutations1(USER_POOL_SIZE)
    /\ BOOK_ID_MAP \in Permutations1(BOOK_POOL_SIZE)
    /\ entropy \in 0..MaxEntropy
    /\ entropy2 \in 0..MaxEntropy
    /\ uuid_calls = 0
    /\ cpc = "idle"
    /\ n_events = 0
    /\ sess_lengths = <<>>
    /\ total = 0
    /\ sidx = 0
    /\ session_uuid = NoUuid
    /\ session_uuid2 = NoUuid
    /\ user_id = 0
    /\ current_ts = NoDt
    /\ current_ts2 = NoDt
    /\ todo = 0
    /\ event_id = NoUuid
    /\ event_ts = 0
    /\ zctx = "user"
    /\ r = 0
    /\ draws = 0
    /\ cols = <<>>
    /\ cols2 = <<>>
    /\ df = <<>>
    /\ df2 = <<>>

\* Both runs enter generate_chunk(n) and plan the same sessions.
PairPlan ==
    /\ cpc = "idle"
    /\ \E n \in 1..MaxEvents :
         /\ n_events' = n
         /\ \E p \in Plans(n, MAX_SESSION_LEN) :
              /\ sess_lengths' = p
              /\ total' = SumSeq(p)
    /\ sidx' = 1
    /\ cpc' = "session"
    /\ UNCHANGED <<NOW, USER_ID_MAP, BOOK_ID_MAP, entropy, uuid_calls,
                   session_uuid, user_id, current_ts, todo, event_id,
                   event_ts, zctx, r, draws, cols, df>>
    /\ UNCHANGED <<NOW2, entropy2, session_uuid2, current_ts2, cols2, df2>>
    /\ UNCHANGED writerVars

\* Both runs start the session: lines 160-164.
PairStartSession ==
    /\ cpc = "session"
    /\ sidx <= Len(sess_lengths)
    /\ session_uuid' = Uuid4(entropy, uuid_calls)
    /\ session_uuid2' = Uuid4(entropy2, uuid_calls)
    /\ uuid_calls' = uuid_calls + 1
    /\ \E z \in ZipfDraws(USER_POOL_SIZE) :
         /\ ~ZipfRejects(z, USER_POOL_SIZE)
         /\ r' = z
         /\ user_id' = MapRank(USER_ID_MAP, z)
    /\ \E o \in TsOffsets :
         /\ current_ts' = FromTimestamp(RandTs(NOW, o))
         /\ current_ts2' = FromTimestamp(RandTs(NOW2, o))
    /\ todo' = sess_lengths[sidx]
    /\ cpc' = "event"
    /\ UNCHANGED <<NOW, USER_ID_MAP, BOOK_ID_MAP, entropy, n_events,
                   sess_lengths, total, sidx, event_id, event_ts, zctx,
                   draws, cols, df>>
    /\ UNCHANGED <<NOW2, entropy2, cols2, df2>>
    /\ UNCHANGED writerVars

\* Both runs emit the event: lines 166-210.
PairEmit ==
    /\ cpc = "event"
    /\ todo > 0
    /\ event_id' = Uuid4(entropy, uuid_calls)
    /\ uuid_calls' = uuid_calls + 1
    /\ event_ts' = Strftime(current_ts)
    /\ \E z \in ZipfDraws(BOOK_POOL_SIZE) :
         /\ ~ZipfRejects(z, BOOK_POOL_SIZE)
         /\ r' = z
         /\ cols' = Append(cols,
                Row(Uuid4(entropy, uuid_calls), Strftime(current_ts),
                    user_id, MapRank(BOOK_ID_MAP, z), session_uuid))
         /\ cols2' = Append(cols2,
                Row(Uuid4(entropy2, uuid_calls), Strftime(current_ts2),
                    user_id, MapRank(BOOK_ID_MAP, z), session_uuid2))
    /\ \E gap \in GapDraws :
         /\ current_ts' = AdvanceTs(current_ts, gap, NOW)
         /\ current_ts2' = AdvanceTs(current_ts2, gap, NOW2)
    /\ todo' = todo - 1
    /\ UNCHANGED <<NOW, USER_ID_MAP, BOOK_ID_MAP, entropy, cpc, n_events,
                   sess_lengths, total, sidx, session_uuid, user_id, zctx,
                   draws, df>>
    /\ UNCHANGED <<NOW2, entropy2, session_uuid2, df2>>
    /\ UNCHANGED writerVars

\* Both runs return their batch: lines 212-216.
PairReturn ==
    /\ cpc = "session"
    /\ sidx > Len(sess_lengths)
    /\ df' = Truncate(cols, n_events)
    /\ df2' = Truncate(cols2, n_events)
    /\ cpc' = "done"
    /\ UNCHANGED <<NOW, USER_ID_MAP, BOOK_ID_MAP, entropy, uuid_calls,
                   n_events, sess_lengths, total, sidx, session_uuid,
                   user_id, current_ts, todo, event_id, event_ts, zctx, r,
                   draws, cols>>
    /\ UNCHANGED <<NOW2, entropy2, session_uuid2, current_ts2, cols2>>
    /\ UNCHANGED writerVars

NextPair ==
    \/ PairPlan
    \/ PairStartSession
    \/ PairEmit
    \/ EndSession
    \/ PairReturn

SpecPair == InitPair /\ [][NextPair]_vars

\* C5: two runs with the same seed and configuration produce equal rows at
\* every position.
C5_RunsIdentical ==
    /\ Len(cols) = Len(cols2)
    /\ \A i \in 1..Len(cols) : cols[i] = cols2[i]

\* What the seed does fix: the user and the book of every row.
SeededColumnsIdentical ==
    /\ Len(cols) = Len(cols2)
    /\ \A i \in 1..Len(cols) :
          /\ cols[i].user_id = cols2[i].user_id
          /\ cols[i].book_id = cols2[i].book_id

====
